---------------------------- MODULE Spec2Model ----------------------------
(***************************************************************************)
(* A model of the argument parser of src/src/ArgParser.c.                  *)
(*                                                                         *)
(* A C string is a sequence of one-character strings, without its          *)
(* terminator; At reads one character the way arg[k] does, the terminator  *)
(* at k = strlen(arg) included.  A NULL string argument and "" are both    *)
(* the empty sequence: copyStr and isOptParam treat them alike.            *)
(*                                                                         *)
(* TLC's integers are 32 bits wide, so the widths of the C types are       *)
(* scaled: IntBits stands for the 32 bits of int, unsigned int, int32_t    *)
(* and uint32_t, LongBits for the 64 bits of unsigned long.  Conversions   *)
(* wrap modulo 2^IntBits and 2^LongBits exactly as the C casts do modulo   *)
(* 2^32 and 2^64.                                                          *)
(***************************************************************************)
EXTENDS Integers, Sequences, FiniteSets, TLC

(***************************************************************************)
(* Bounds of the model.                                                    *)
(***************************************************************************)
\* Registration calls the caller makes after construction.
MaxRegs == 2
\* Largest argc handed to ArgParser_parse (argv[0] is the program name).
MaxArgc == 3
\* Largest maximum length a string parameter is registered with.
MaxStrLen == 2
\* Scaled width of int / unsigned int / int32_t / uint32_t.
IntBits == 8
\* Scaled width of unsigned long.
LongBits == 16
\* Longest token the classifier is applied to on its own.
MaxTokLen == 4
\* Registration calls when the lists are filled to their capacity of 32.
MaxFillCalls == 34
\* Largest maximum length of a string parameter when conversions are
\* checked on their own.
MaxClipLen == 5
\* Bytes of the buffer left free by the construction when the buffer is
\* run out of.
BufFree == 9

(***************************************************************************)
(* Program constants (ArgParser_local.h).                                  *)
(***************************************************************************)
APARSER_MAX_BUF == 4096
APARSER_MAX_ARG_PRMS == 32

UIntMod == 2^IntBits
ULongMod == 2^LongBits
ULONG_MAX == ULongMod - 1

(***************************************************************************)
(* Characters and strings.                                                 *)
(***************************************************************************)
NUL == "NUL"

\* A char pointer that is NULL, where the model tells it from a string.
NullStr == <<NUL>>

strlen(str) == Len(str)

At(str, k) == IF k >= 0 /\ k < Len(str) THEN str[k + 1] ELSE NUL

\* The comparison of the first strlen(a) characters only.
StrEq_prefix(a, b) == Len(a) <= Len(b) /\ SubSeq(b, 1, Len(a)) = a

StrEq(a, b) == a = b

Min(a, b) == IF a < b THEN a ELSE b

(***************************************************************************)
(* enum VarType and enum ArgType.                                          *)
(***************************************************************************)
VarType_Int == "Int"
VarType_UInt == "UInt"
VarType_String == "String"
VarType_Bool == "Bool"
VarType_Int32 == "Int32"
VarType_UInt32 == "UInt32"
VarType_Float == "Float"
VarType_Double == "Double"
VarType_True == "True"

ArgType_Opt == "Opt"
ArgType_NoOpt == "NoOpt"
ArgType_Error == "Error"

\* The kind of a token that is not classified: the value of an option.
Value == "Value"

(***************************************************************************)
(* determineArgType: the classification of one token.                      *)
(***************************************************************************)
\* The classifier without the test of the third character.
determineArgType_noThirdChar(arg) ==
    IF strlen(arg) >= 3 /\ At(arg, 0) = "-" /\ At(arg, 1) = "-"
    THEN ArgType_Opt
    ELSE IF strlen(arg) >= 2 /\ At(arg, 0) = "-"
         THEN IF At(arg, 1) # "-" THEN ArgType_Opt ELSE ArgType_Error
         ELSE IF At(arg, 0) # "-" THEN ArgType_NoOpt ELSE ArgType_Error

determineArgType(arg) ==
    IF strlen(arg) >= 3 /\ At(arg, 0) = "-" /\ At(arg, 1) = "-"
    THEN IF At(arg, 2) # "-" THEN ArgType_Opt ELSE ArgType_Error
    ELSE IF strlen(arg) >= 2 /\ At(arg, 0) = "-"
         THEN IF At(arg, 1) # "-" THEN ArgType_Opt ELSE ArgType_Error
         ELSE IF At(arg, 0) # "-" THEN ArgType_NoOpt ELSE ArgType_Error

\* The help test without the comparison with --help.
isHelpOption_shortOnly(arg) == StrEq(arg, <<"-", "h">>)

isHelpOption(arg) ==
    StrEq(arg, <<"-", "h">>) \/ StrEq(arg, <<"-", "-", "h", "e", "l", "p">>)

isVerOption(arg) ==
    \/ StrEq(arg, <<"-", "v">>)
    \/ StrEq(arg, <<"-", "-", "v", "e", "r", "s", "i", "o", "n">>)

(***************************************************************************)
(* The C library's conversions, as writeArg uses them.                     *)
(***************************************************************************)
isspace(c) == c \in {" ", "\t", "\n", "\r", "\f"}

\* The value of a character as a digit; 99 for a character that is a digit
\* of no base up to 16.
DigitOf(c) ==
    CASE c = "0" -> 0 [] c = "1" -> 1 [] c = "2" -> 2 [] c = "3" -> 3
      [] c = "4" -> 4 [] c = "5" -> 5 [] c = "6" -> 6 [] c = "7" -> 7
      [] c = "8" -> 8 [] c = "9" -> 9
      [] c \in {"a", "A"} -> 10 [] c \in {"b", "B"} -> 11
      [] c \in {"c", "C"} -> 12 [] c \in {"d", "D"} -> 13
      [] c \in {"e", "E"} -> 14 [] c \in {"f", "F"} -> 15
      [] OTHER -> 99

RECURSIVE SkipSpace(_, _)
SkipSpace(arg, k) == IF isspace(At(arg, k)) THEN SkipSpace(arg, k + 1) ELSE k

\* The digits of `base` from index k on: the value accumulated (clamped to
\* `max` once it passes it), whether it passed it, and the index after the
\* last digit.
RECURSIVE ScanDigits(_, _, _, _, _)
ScanDigits(arg, k, base, max, acc) ==
    IF DigitOf(At(arg, k)) < base
    THEN LET nv == acc.val * base + DigitOf(At(arg, k))
             o  == acc.ovf \/ nv > max
         IN  ScanDigits(arg, k + 1, base, max,
                        [val |-> IF o THEN max ELSE nv, ovf |-> o])
    ELSE [val |-> acc.val, ovf |-> acc.ovf, end |-> k]

\* strtoul(arg, &errPtr, 0): white space, a sign, a 0x or 0 prefix, digits.
\* val is the unsigned long returned, end the index errPtr points at (0, the
\* start of arg, when no digit was converted).
strtoul(arg) ==
    LET k0   == SkipSpace(arg, 0)
        neg  == At(arg, k0) = "-"
        k1   == IF At(arg, k0) \in {"-", "+"} THEN k0 + 1 ELSE k0
        hex  == /\ At(arg, k1) = "0"
                /\ At(arg, k1 + 1) \in {"x", "X"}
                /\ DigitOf(At(arg, k1 + 2)) < 16
        base == IF hex THEN 16 ELSE IF At(arg, k1) = "0" THEN 8 ELSE 10
        k2   == IF hex THEN k1 + 2 ELSE k1
        r    == ScanDigits(arg, k2, base, ULONG_MAX, [val |-> 0, ovf |-> FALSE])
    IN  IF r.end = k2
        THEN [val |-> 0, end |-> 0]
        ELSE [val |-> IF r.ovf THEN ULONG_MAX
                      ELSE IF neg THEN (ULongMod - r.val) % ULongMod
                      ELSE r.val,
              end |-> r.end]

\* A decimal value n * 10^e without trailing zeros in n.
RECURSIVE NormDec(_, _)
NormDec(n, e) ==
    IF n = 0 THEN [n |-> 0, e |-> 0]
    ELSE IF e < 0 /\ n % 10 = 0 THEN NormDec(n \div 10, e + 1)
    ELSE [n |-> n, e |-> e]

\* strtof / strtod on the syntax the model's tokens can have: white space, a
\* sign, then 0x and hexadecimal digits, or decimal digits with an optional
\* fraction.  The value is n * 10^e.  (Exponents, hexadecimal fractions, INF
\* and NAN need characters no token of the model has.)
\* The end of strtod: ip is the integer part scanned from index k2, fp the
\* fraction scanned after the point (ip again when there is no point).
strtodValue(neg, k2, dot, ip, fp) ==
    LET nint == ip.end - k2
        nfrc == IF dot THEN fp.end - (ip.end + 1) ELSE 0
        sgn  == IF neg THEN -1 ELSE 1
    IN  IF nint + nfrc = 0
        THEN [n |-> 0, e |-> 0, end |-> 0]
        ELSE IF dot
             THEN [n |-> NormDec(sgn * fp.val, -nfrc).n,
                   e |-> NormDec(sgn * fp.val, -nfrc).e, end |-> fp.end]
             ELSE [n |-> sgn * ip.val, e |-> 0, end |-> ip.end]

strtodFraction(arg, neg, hex, k2, ip) ==
    IF ~hex /\ At(arg, ip.end) = "."
    THEN strtodValue(neg, k2, TRUE, ip,
                     ScanDigits(arg, ip.end + 1, 10, ULONG_MAX,
                                [val |-> ip.val, ovf |-> ip.ovf]))
    ELSE strtodValue(neg, k2, FALSE, ip, ip)

strtodDigits(arg, neg, hex, k2) ==
    strtodFraction(arg, neg, hex, k2,
                   ScanDigits(arg, k2, IF hex THEN 16 ELSE 10, ULONG_MAX,
                              [val |-> 0, ovf |-> FALSE]))

strtodPrefix(arg, neg, k1) ==
    IF /\ At(arg, k1) = "0"
       /\ At(arg, k1 + 1) \in {"x", "X"}
       /\ DigitOf(At(arg, k1 + 2)) < 16
    THEN strtodDigits(arg, neg, TRUE, k1 + 2)
    ELSE strtodDigits(arg, neg, FALSE, k1)

strtodSign(arg, k0) ==
    strtodPrefix(arg, At(arg, k0) = "-",
                 IF At(arg, k0) \in {"-", "+"} THEN k0 + 1 ELSE k0)

strtod(arg) == strtodSign(arg, SkipSpace(arg, 0))

\* The casts of an unsigned long to the parameter's C type.
ToUInt(v) == v % UIntMod

ToInt(v) == IF v % UIntMod >= UIntMod \div 2
            THEN (v % UIntMod) - UIntMod
            ELSE v % UIntMod

ToBool(v) == IF v # 0 THEN 1 ELSE 0

(***************************************************************************)
(* Values.  A destination holds a value cell: init is FALSE for storage    *)
(* the caller has not initialised; n * 10^e is the number of a numeric or  *)
(* boolean cell (e = 0 but for float and double; a bool is 0 or 1); s is   *)
(* the text of a string cell up to its terminator.                         *)
(***************************************************************************)
Uninit == [init |-> FALSE, n |-> 0, e |-> 0, s |-> <<>>]

NumVal(n, e) == [init |-> TRUE, n |-> n, e |-> e, s |-> <<>>]

StrVal(s) == [init |-> TRUE, n |-> 0, e |-> 0, s |-> s]

\* strncpy without the terminator stored after it.
ClipStr_noTerminator(src, len) == SubSeq(src, 1, Min(strlen(src), len))

\* strncpy(p, src, len); p[len - 1] = '\0': the text p holds afterwards.
\* (len >= 1; with len = 0 nothing of p is written, see the callers.)
ClipStr(src, len) == SubSeq(src, 1, Min(strlen(src), len - 1))

(***************************************************************************)
(* writeDefaultValue: the cell the destination holds afterwards, given the *)
(* cell cur it held before.  oob: the store went outside the destination   *)
(* (p[len - 1] with the unsigned len = 0).                                 *)
(***************************************************************************)
writeDefaultValue(pdef, cur) ==
    IF pdef.varType = VarType_String
    THEN IF pdef.defVal.len = 0
         THEN [status |-> 0, val |-> cur, oob |-> TRUE]
         ELSE [status |-> 0, oob |-> FALSE,
               val |-> StrVal(ClipStr(pdef.defVal.s, pdef.defVal.len))]
    ELSE [status |-> 0, oob |-> FALSE,
          val |-> NumVal(pdef.defVal.n, pdef.defVal.e)]

(***************************************************************************)
(* writeArg: the conversion of one token into the destination.  The store  *)
(* into the destination comes before the test of errPtr, so val is what    *)
(* the destination holds whether status is 0 or 1.                         *)
(***************************************************************************)
writeArg(arg, pdef, cur) ==
    LET u == strtoul(arg)
        d == strtod(arg)
        ustatus == IF At(arg, u.end) # NUL THEN 1 ELSE 0
        dstatus == IF At(arg, d.end) # NUL THEN 1 ELSE 0
    IN  CASE pdef.varType \in {VarType_Int, VarType_Int32} ->
               [status |-> ustatus, val |-> NumVal(ToInt(u.val), 0), oob |-> FALSE]
          [] pdef.varType \in {VarType_UInt, VarType_UInt32} ->
               [status |-> ustatus, val |-> NumVal(ToUInt(u.val), 0), oob |-> FALSE]
          [] pdef.varType \in {VarType_Bool, VarType_True} ->
               [status |-> ustatus, val |-> NumVal(ToBool(u.val), 0), oob |-> FALSE]
          [] pdef.varType \in {VarType_Float, VarType_Double} ->
               [status |-> dstatus, val |-> NumVal(d.n, d.e), oob |-> FALSE]
          [] pdef.varType = VarType_String ->
               IF pdef.defVal.len = 0
               THEN [status |-> 0, val |-> cur, oob |-> TRUE]
               ELSE [status |-> 0, oob |-> FALSE,
                     val |-> StrVal(ClipStr(arg, pdef.defVal.len))]

(***************************************************************************)
(* The registry.                                                           *)
(***************************************************************************)
isOptParam(sOpt, lOpt) == strlen(sOpt) # 0 \/ strlen(lOpt) # 0

isPosParam(sOpt, lOpt) == ~isOptParam(sOpt, lOpt)

\* The index in optPrms (from 1) of the definition findOptionalParam
\* returns, 0 for NULL.
RECURSIVE findFrom(_, _, _)
findFrom(prms, arg, k) ==
    IF k > Len(prms) THEN 0
    ELSE IF StrEq(arg, prms[k].sOpt) \/ StrEq(arg, prms[k].lOpt) THEN k
    ELSE findFrom(prms, arg, k + 1)

\* The look-up without the comparison with the long option string.
findOptionalParam_shortOnly(prms, arg) ==
    IF \E k \in 1..Len(prms) : StrEq(arg, prms[k].sOpt)
    THEN CHOOSE k \in 1..Len(prms) :
            /\ StrEq(arg, prms[k].sOpt)
            /\ \A j \in 1..(k - 1) : ~StrEq(arg, prms[j].sOpt)
    ELSE 0

\* The look-up that returns the last definition that matches.
findOptionalParam_latest(prms, arg) ==
    IF \E k \in 1..Len(prms) : StrEq(arg, prms[k].sOpt) \/ StrEq(arg, prms[k].lOpt)
    THEN CHOOSE k \in 1..Len(prms) :
            /\ StrEq(arg, prms[k].sOpt) \/ StrEq(arg, prms[k].lOpt)
            /\ \A j \in (k + 1)..Len(prms) :
                  ~(StrEq(arg, prms[j].sOpt) \/ StrEq(arg, prms[j].lOpt))
    ELSE 0

findOptionalParam(prms, arg) == findFrom(prms, arg, 1)

\* An error message: the format setErrorMsg was given and its arguments.
Msg(fmt, a, b, m, k) == [fmt |-> fmt, arg |-> a, name |-> b, n1 |-> m, n2 |-> k]

Msg0(fmt) == Msg(fmt, <<>>, <<>>, 0, 0)

MsgOK == Msg0("OK.")

\* copyStr that sets no error message when the string does not fit.
copyStr_silent(idx, str) ==
    IF APARSER_MAX_BUF - idx < strlen(str) + 1
    THEN [ok |-> FALSE, bufIdx |-> idx, msgs |-> <<>>]
    ELSE [ok |-> TRUE, bufIdx |-> idx + strlen(str) + 1, msgs |-> <<>>]

\* copyStr: whether the string fits the rest of the buffer, the buffer index
\* afterwards and the error messages set.
copyStr(idx, str) ==
    LET bufRest == APARSER_MAX_BUF - idx
        len     == strlen(str) + 1
    IN  IF bufRest < len
        THEN [ok |-> FALSE, bufIdx |-> idx,
              msgs |-> <<Msg("Cannot store the string '%s'.", str, <<>>, 0, 0)>>]
        ELSE [ok |-> TRUE, bufIdx |-> idx + len, msgs |-> <<>>]

\* The union Val as a parameter definition stores it.
DefNum(n) == [n |-> n, e |-> 0, s |-> <<>>, len |-> 0]

DefDec(n, e) == [n |-> n, e |-> e, s |-> <<>>, len |-> 0]

DefStr(s, len) == [n |-> 0, e |-> 0, s |-> s, len |-> len]

\* The capacity test with > in the place of >=.
isFull_offByOne(num) == num > APARSER_MAX_ARG_PRMS

\* The capacity test of addParam: the list holds APARSER_MAX_ARG_PRMS
\* definitions.
isFull(num) == num >= APARSER_MAX_ARG_PRMS

\* The buffer index left where the copies before the failure moved it.
RolledBack_not(entry, reached) == reached

\* error: the buffer index set back to its value at the entry of addParam.
RolledBack(entry, reached) == entry

\* addParam on a parser with nOpt optional and nPos positional definitions
\* and buffer index idx: the status returned, the definition stored, which
\* list it goes to, the buffer index afterwards and the messages set, in
\* order.
addParam(nOpt, nPos, idx, varType, dest, defVal, sOpt, lOpt, name, desc) ==
    LET opt  == isOptParam(sOpt, lOpt)
        full == IF opt THEN isFull(nOpt) ELSE isFull(nPos)
        c0   == IF varType = VarType_String
                THEN copyStr(idx, defVal.s)
                ELSE [ok |-> TRUE, bufIdx |-> idx, msgs |-> <<>>]
        c1   == copyStr(c0.bufIdx, sOpt)
        c2   == copyStr(c1.bufIdx, lOpt)
        c3   == copyStr(c2.bufIdx, name)
        c4   == copyStr(c3.bufIdx, desc)
        pdef == [sOpt |-> sOpt, lOpt |-> lOpt, name |-> name, desc |-> desc,
                 varType |-> varType, dest |-> dest,
                 defVal |-> IF varType = VarType_True THEN DefNum(0) ELSE defVal]
        fail(msgs, reached) ==
            [status |-> 1, opt |-> opt, pdef |-> pdef,
             bufIdx |-> RolledBack(idx, reached), msgs |-> msgs]
    IN  IF full
        THEN fail(<<Msg0(IF opt
                         THEN "Maximum number of optional parameters reached.\n"
                         ELSE "Maximum number of positional parameters reached.\n")>>,
                  idx)
        ELSE IF ~c0.ok
        THEN fail(c0.msgs \o <<Msg("Cannot store string-type default value. '%s'\n",
                                   defVal.s, <<>>, 0, 0)>>,
                  c0.bufIdx)
        ELSE IF ~c1.ok
        THEN fail(c1.msgs \o <<Msg("Cannot store short option. '%s'\n",
                                   sOpt, <<>>, 0, 0)>>,
                  c1.bufIdx)
        ELSE IF ~c2.ok THEN fail(c2.msgs, c2.bufIdx)
        ELSE IF ~c3.ok THEN fail(c3.msgs, c3.bufIdx)
        ELSE IF ~c4.ok THEN fail(c4.msgs, c4.bufIdx)
        ELSE [status |-> 0, opt |-> opt, pdef |-> pdef,
              bufIdx |-> c4.bufIdx, msgs |-> <<>>]

\* The error message set back to "OK." by a call that sets none.
setErrorMsgs_clears(cur, msgs) == IF msgs = <<>> THEN MsgOK ELSE msgs[Len(msgs)]

\* The error message after the messages msgs were set, in order.
setErrorMsgs(cur, msgs) == IF msgs = <<>> THEN cur ELSE msgs[Len(msgs)]

(***************************************************************************)
(* The inputs the model draws.                                             *)
(***************************************************************************)
ProgName == <<"p">>
ProgDesc == <<"d">>
ParamName == <<"n">>
ParamDesc == <<"t">>

Tok_h == <<"-", "h">>
Tok_help == <<"-", "-", "h", "e", "l", "p">>
Tok_v == <<"-", "v">>
Tok_version == <<"-", "-", "v", "e", "r", "s", "i", "o", "n">>
Tok_i == <<"-", "i">>
Tok_ip == <<"-", "-", "i", "p">>
Tok_o == <<"-", "o">>
Tok_w == <<"-", "w">>
\* -ip, which begins with the option string -i, and --i, which begins the
\* option string --ip: neither is registered by any call.
Tok_i_longer == <<"-", "i", "p">>
Tok_ip_shorter == <<"-", "-", "i">>

\* The option strings a registration call is given: none (a positional
\* parameter), a short and a long one, one of the two, or -h, which
\* ArgParser_new has registered already.  Calls may repeat an option string.
NoOpt == [s |-> <<>>, l |-> <<>>]
Opt_i == [s |-> Tok_i, l |-> Tok_ip]
Opt_li == [s |-> <<>>, l |-> Tok_ip]
Opt_o == [s |-> Tok_o, l |-> <<>>]
Opt_w == [s |-> Tok_w, l |-> <<>>]
Opt_h == [s |-> Tok_h, l |-> <<>>]

\* The tokens argv[1..] is drawn from: numbers (decimal, with a fraction,
\* with a trailing letter), text, registered and unregistered
\* option strings, and a malformed token.
Tokens ==
    { <<"7">>, <<"1", "x">>, <<"1", ".", "5">>, <<"a", "b", "c">>,
      Tok_h, Tok_help, Tok_v, Tok_version,
      Tok_i, Tok_ip, Tok_o, Tok_w, Tok_i_longer, Tok_ip_shorter,
      <<"-", "-">> }

\* The maximum length string parameters are registered with, and their
\* default: a text that fits the destination ("" in one character, "d" in
\* more).
StrLens == {MaxStrLen}

StrDefaults(len) == {d \in {<<>>, <<"d">>} : strlen(d) = Min(1, len - 1)}

(***************************************************************************)
(* The state.                                                              *)
(*   progName, progDesc, version, date, author   the texts the parser      *)
(*                     points to in its buffer; NullStr for a NULL pointer *)
(*   optPrms, posPrms  the two lists of definitions (numOptPrms and        *)
(*                     numPosPrms are their lengths)                        *)
(*   reqFullPosParams, errorMsg, bufIdx   the fields of struct ArgParser_  *)
(*   mem        the destinations: mem[1] is isHelpSpecified, mem[2] is     *)
(*              isVerSpecified, mem[2 + k] the variable the caller's k-th  *)
(*              successful registration bound                               *)
(*   oob        a store went outside its destination                       *)
(*   nCalls     registration and metadata calls made so far                *)
(*   pc         "config" (constructed, not yet parsed), "defaults" (inside *)
(*              writeDefaultParams), "scan" (at the test of the while      *)
(*              loop), "done" (parse has returned or the process exited);  *)
(*              "classify" and "classified" around a call of               *)
(*              determineArgType on its own                                *)
(*   argc, i, posIdx   the parameter and the locals of ArgParser_parse     *)
(*   defIdx     definitions writeDefaultParams has written                 *)
(*   argv       the tokens the scan has read so far: argv[k] is the C      *)
(*              argv[k], drawn from Tokens when the scan reads it          *)
(*   kind       kind[k] is how the scan took argv[k]: the ArgType it was   *)
(*              classified as, or Value for a token read as the value of   *)
(*              the option before it                                        *)
(*   result     "none", or how parse ended: "ok" (returned 0), "fail"      *)
(*              (returned 1), "exit" (exit(0) was called)                  *)
(***************************************************************************)
VARIABLES progName, progDesc, version, date, author,
          optPrms, posPrms, reqFullPosParams, errorMsg, bufIdx, mem, oob,
          nCalls, pc, argc, i, posIdx, defIdx, argv, kind, result

textVars == <<progName, progDesc, version, date, author>>
regVars == <<textVars, optPrms, posPrms, bufIdx, nCalls>>
scanVars == <<argc, i, posIdx, defIdx, argv, kind, result>>
vars == <<progName, progDesc, version, date, author,
          optPrms, posPrms, reqFullPosParams, errorMsg, bufIdx, mem, oob,
          nCalls, pc, argc, i, posIdx, defIdx, argv, kind, result>>

numOptPrms == Len(optPrms)
numPosPrms == Len(posPrms)

HelpLoc == 1
VerLoc == 2

(***************************************************************************)
(* ArgParser_new: the state after construction.                            *)
(***************************************************************************)
NewBufOf(name, desc) ==
    LET c1 == copyStr(0, name)
        c2 == copyStr(c1.bufIdx, desc)
        c3 == copyStr(c2.bufIdx, <<>>)
        c4 == copyStr(c3.bufIdx, <<>>)
        c5 == copyStr(c4.bufIdx, <<>>)
    IN  c5.bufIdx

NewHelpAt(idx) ==
    addParam(0, 0, idx, VarType_True, HelpLoc, DefNum(0), Tok_h, Tok_help,
             <<"h", "e", "l", "p">>,
             <<"S", "h", "o", "w", " ", "h", "e", "l", "p", " ",
               "m", "e", "s", "s", "a", "g", "e", ".">>)

NewVersionAt(idx) ==
    addParam(1, 0, idx, VarType_True, VerLoc, DefNum(0), Tok_v,
             Tok_version,
             <<"v", "e", "r", "s", "i", "o", "n">>,
             <<"S", "h", "o", "w", " ", "v", "e", "r", "s", "i", "o", "n", " ",
               "s", "t", "r", "i", "n", "g", ".">>)

\* The three for the program name and description the model constructs
\* the parser with.
NewBuf == NewBufOf(ProgName, ProgDesc)

NewHelp == NewHelpAt(NewBuf)

NewVersion == NewVersionAt(NewHelp.bufIdx)

\* The state ArgParser_new(name, desc) returns a parser in.
ArgParser_new(name, desc) ==
    /\ progName = name
    /\ progDesc = desc
    /\ version = <<>>
    /\ date = <<>>
    /\ author = <<>>
    /\ optPrms = <<NewHelpAt(NewBufOf(name, desc)).pdef,
                   NewVersionAt(NewHelpAt(NewBufOf(name, desc)).bufIdx).pdef>>
    /\ posPrms = <<>>
    /\ reqFullPosParams = FALSE
    /\ errorMsg = MsgOK
    /\ bufIdx = NewVersionAt(NewHelpAt(NewBufOf(name, desc)).bufIdx).bufIdx
    /\ mem = <<NumVal(0, 0), NumVal(0, 0)>>
    /\ oob = FALSE
    /\ nCalls = 0
    /\ pc = "config"
    /\ argc = 0
    /\ i = 0
    /\ posIdx = 0
    /\ defIdx = 0
    /\ argv = <<>>
    /\ kind = <<>>
    /\ result = "none"

Init == ArgParser_new(ProgName, ProgDesc)

(***************************************************************************)
(* Configuration.                                                          *)
(***************************************************************************)
ArgParser_requireFullPosParams ==
    /\ pc = "config"
    /\ reqFullPosParams' = TRUE
    /\ UNCHANGED <<regVars, scanVars, errorMsg, mem, oob, pc>>

\* The definition put before the ones the list holds.
Stored_atFront(prms, pdef) == <<pdef>> \o prms

\* The list after addParam filled the slot prms[num] and incremented num.
Stored(prms, pdef) == Append(prms, pdef)

\* One registration call, of at most maxCalls: addParam with a fresh
\* variable of the caller as the destination.
RegisterWithin(maxCalls, varType, defVal, o) ==
    /\ pc = "config"
    /\ nCalls < maxCalls
    /\ LET r == addParam(numOptPrms, numPosPrms, bufIdx, varType,
                         Len(mem) + 1, defVal, o.s, o.l, ParamName, ParamDesc)
       IN  /\ bufIdx' = r.bufIdx
           /\ errorMsg' = setErrorMsgs(errorMsg, r.msgs)
           /\ optPrms' = IF r.status = 0 /\ r.opt
                         THEN Stored(optPrms, r.pdef) ELSE optPrms
           /\ posPrms' = IF r.status = 0 /\ ~r.opt
                         THEN Stored(posPrms, r.pdef) ELSE posPrms
           /\ mem' = IF r.status = 0 THEN Append(mem, Uninit) ELSE mem
    /\ nCalls' = nCalls + 1
    /\ UNCHANGED <<textVars, scanVars, reqFullPosParams, oob, pc>>

Register(varType, defVal, o) == RegisterWithin(MaxRegs, varType, defVal, o)

ArgParser_addInt ==
    \E o \in {NoOpt, Opt_i, Opt_h} : Register(VarType_Int, DefNum(-123), o)

ArgParser_addUInt ==
    \E o \in {Opt_o} : Register(VarType_UInt, DefNum(5), o)

ArgParser_addString ==
    \E o \in {NoOpt, Opt_o} : \E len \in StrLens : \E d \in StrDefaults(len) :
        Register(VarType_String, DefStr(d, len), o)

ArgParser_addBool ==
    \E o \in {Opt_o} : Register(VarType_Bool, DefNum(1), o)

ArgParser_addInt32 ==
    \E o \in {NoOpt} : Register(VarType_Int32, DefNum(-3), o)

\* The default is an int32_t stored into the uint32_t member of the union.
ArgParser_addUInt32 ==
    \E o \in {Opt_li} : Register(VarType_UInt32, DefNum(ToUInt(9)), o)

ArgParser_addFloat ==
    \E o \in {NoOpt} : Register(VarType_Float, DefDec(25, -1), o)

ArgParser_addDouble ==
    \E o \in {Opt_o} : Register(VarType_Double, DefDec(-5, -1), o)

ArgParser_addTrue ==
    \E o \in {Opt_w, Opt_i} : Register(VarType_True, DefNum(0), o)

\* ArgParser_addVersion, ArgParser_addDate, ArgParser_addAuthor: the
\* pointer is assigned what copyStr returns, NULL when the text does not
\* fit the rest of the buffer.
MetaTexts == {<<"1">>}

ArgParser_addVersion ==
    /\ pc = "config"
    /\ nCalls < MaxRegs
    /\ \E text \in MetaTexts :
        LET c == copyStr(bufIdx, text)
        IN  /\ version' = IF c.ok THEN text ELSE NullStr
            /\ bufIdx' = c.bufIdx
            /\ errorMsg' = IF c.ok THEN errorMsg
                           ELSE Msg0("Cannot add version string.")
    /\ nCalls' = nCalls + 1
    /\ UNCHANGED <<progName, progDesc, date, author, optPrms, posPrms,
                   scanVars, reqFullPosParams, mem, oob, pc>>

ArgParser_addDate ==
    /\ pc = "config"
    /\ nCalls < MaxRegs
    /\ \E text \in MetaTexts :
        LET c == copyStr(bufIdx, text)
        IN  /\ date' = IF c.ok THEN text ELSE NullStr
            /\ bufIdx' = c.bufIdx
            /\ errorMsg' = IF c.ok THEN errorMsg
                           ELSE Msg0("Cannot add release date.")
    /\ nCalls' = nCalls + 1
    /\ UNCHANGED <<progName, progDesc, version, author, optPrms, posPrms,
                   scanVars, reqFullPosParams, mem, oob, pc>>

ArgParser_addAuthor ==
    /\ pc = "config"
    /\ nCalls < MaxRegs
    /\ \E text \in MetaTexts :
        LET c == copyStr(bufIdx, text)
        IN  /\ author' = IF c.ok THEN text ELSE NullStr
            /\ bufIdx' = c.bufIdx
            /\ errorMsg' = IF c.ok THEN errorMsg
                           ELSE Msg0("Cannot add author name.")
    /\ nCalls' = nCalls + 1
    /\ UNCHANGED <<progName, progDesc, version, date, optPrms, posPrms,
                   scanVars, reqFullPosParams, mem, oob, pc>>

(***************************************************************************)
(* ArgParser_parse.                                                        *)
(***************************************************************************)
\* The call: the locals are initialised and writeDefaultParams is entered.
ArgParser_parse ==
    /\ pc = "config"
    /\ \E n \in 1..MaxArgc : argc' = n
    /\ i' = 1
    /\ posIdx' = 0
    /\ defIdx' = 0
    /\ pc' = "defaults"
    /\ UNCHANGED <<regVars, reqFullPosParams, errorMsg, mem, oob, argv, kind,
                   result>>

\* The positional parameters written before the optional ones.
DefaultTarget_posFirst(k) ==
    IF k < numPosPrms THEN posPrms[k + 1] ELSE optPrms[k - numPosPrms + 1]

\* The definition the next iteration of writeDefaultParams writes: the
\* optional parameters, then the positional ones.
DefaultTarget(k) ==
    IF k < numOptPrms THEN optPrms[k + 1] ELSE posPrms[k - numOptPrms + 1]

\* One iteration of the two loops of writeDefaultParams.
writeDefaultParams_step ==
    /\ pc = "defaults"
    /\ defIdx < numOptPrms + numPosPrms
    /\ LET pdef == DefaultTarget(defIdx)
           w    == writeDefaultValue(pdef, mem[pdef.dest])
       IN  /\ mem' = [mem EXCEPT ![pdef.dest] = w.val]
           /\ oob' = (oob \/ w.oob)
    /\ defIdx' = defIdx + 1
    /\ UNCHANGED <<regVars, reqFullPosParams, errorMsg, pc, argc, i, posIdx,
                   argv, kind, result>>

\* writeDefaultParams returns 0 and the scan loop is reached.
writeDefaultParams_return ==
    /\ pc = "defaults"
    /\ defIdx = numOptPrms + numPosPrms
    /\ pc' = "scan"
    /\ UNCHANGED <<regVars, scanVars, reqFullPosParams, errorMsg, mem, oob>>

\* The scan reads argv[i] and classifies it.
Read(tok) ==
    /\ argv' = Append(argv, tok)
    /\ kind' = Append(kind, determineArgType(tok))

\* The scan reads argv[i], an option, and argv[i + 1], its value.
ReadValue(tok, v) ==
    /\ argv' = argv \o <<tok, v>>
    /\ kind' = kind \o <<determineArgType(tok), Value>>

\* How an iteration ends the parse.
Fail(msg) ==
    /\ errorMsg' = msg
    /\ result' = "fail"
    /\ pc' = "done"

\* The status writeArg returned not looked at.
Written_ignoresStatus(status, msg) == UNCHANGED <<errorMsg, result, pc>>

\* After writeArg returned status: the parse fails with msg when it is not
\* 0, and goes on otherwise.
Written(status, msg) ==
    /\ errorMsg' = IF status # 0 THEN msg ELSE errorMsg
    /\ result' = IF status # 0 THEN "fail" ELSE result
    /\ pc' = IF status # 0 THEN "done" ELSE pc

\* The malformed token passed over instead of refused.
ScanMalformed_goesOn ==
    /\ pc = "scan" /\ i < argc
    /\ \E tok \in Tokens :
        /\ determineArgType(tok) = ArgType_Error
        /\ Read(tok)
    /\ i' = i + 1
    /\ UNCHANGED <<regVars, reqFullPosParams, errorMsg, mem, oob, pc, argc,
                   posIdx, defIdx, result>>

\* The token is malformed.
ScanMalformed ==
    /\ pc = "scan" /\ i < argc
    /\ \E tok \in Tokens :
        /\ determineArgType(tok) = ArgType_Error
        /\ Read(tok)
        /\ Fail(Msg("Irregal argument type: Near the arg '%s'.", tok, <<>>, 0, 0))
    /\ UNCHANGED <<regVars, reqFullPosParams, mem, oob, argc, i, posIdx, defIdx>>

\* The surplus positional token skipped instead of refused.
ScanTooMany_skip ==
    /\ pc = "scan" /\ i < argc
    /\ posIdx = numPosPrms
    /\ \E tok \in Tokens :
        /\ determineArgType(tok) = ArgType_NoOpt
        /\ Read(tok)
    /\ i' = i + 1
    /\ UNCHANGED <<regVars, reqFullPosParams, errorMsg, mem, oob, pc, argc,
                   posIdx, defIdx, result>>

\* A positional token when every positional parameter has been filled.
ScanTooMany ==
    /\ pc = "scan" /\ i < argc
    /\ posIdx = numPosPrms
    /\ \E tok \in Tokens :
        /\ determineArgType(tok) = ArgType_NoOpt
        /\ Read(tok)
        /\ Fail(Msg("Too many positonal arguments: Near the arg '%s'. Needs %d positional args. But has more args.",
                    tok, <<>>, numPosPrms, 0))
    /\ UNCHANGED <<regVars, reqFullPosParams, mem, oob, argc, i, posIdx, defIdx>>

\* Every positional token sent to the first positional definition.
PosTarget_first(k) == posPrms[1]

\* The positional definition the token after k positional tokens goes to.
PosTarget(k) == posPrms[k + 1]

\* A positional token, drawn from toks, is converted into the next
\* positional parameter.
ScanPositionalOf(toks) ==
    /\ pc = "scan" /\ i < argc
    /\ posIdx # numPosPrms
    /\ \E tok \in toks :
        /\ determineArgType(tok) = ArgType_NoOpt
        /\ Read(tok)
        /\ LET pdef == PosTarget(posIdx)
               w    == writeArg(tok, pdef, mem[pdef.dest])
           IN  /\ mem' = [mem EXCEPT ![pdef.dest] = w.val]
               /\ oob' = (oob \/ w.oob)
               /\ Written(w.status, Msg("Invalid value: arg %s, %s", tok, pdef.name, 0, 0))
               /\ posIdx' = IF w.status # 0 THEN posIdx ELSE posIdx + 1
               /\ i' = IF w.status # 0 THEN i ELSE i + 1
    /\ UNCHANGED <<regVars, reqFullPosParams, argc, defIdx>>

ScanPositional == ScanPositionalOf(Tokens)

\* An option token no definition matches.
ScanUnknown ==
    /\ pc = "scan" /\ i < argc
    /\ \E tok \in Tokens :
        /\ determineArgType(tok) = ArgType_Opt
        /\ findOptionalParam(optPrms, tok) = 0
        /\ Read(tok)
        /\ Fail(Msg("Unknown option: Near the arg. %s", tok, <<>>, 0, 0))
    /\ UNCHANGED <<regVars, reqFullPosParams, mem, oob, argc, i, posIdx, defIdx>>

\* -h or --help: printHelp and exit(0).
ScanHelp ==
    /\ pc = "scan" /\ i < argc
    /\ \E tok \in Tokens :
        /\ determineArgType(tok) = ArgType_Opt
        /\ findOptionalParam(optPrms, tok) # 0
        /\ isHelpOption(tok)
        /\ Read(tok)
    /\ result' = "exit"
    /\ pc' = "done"
    /\ UNCHANGED <<regVars, reqFullPosParams, errorMsg, mem, oob, argc, i,
                   posIdx, defIdx>>

\* -v or --version: printVersion and exit(0).
ScanVersion ==
    /\ pc = "scan" /\ i < argc
    /\ \E tok \in Tokens :
        /\ determineArgType(tok) = ArgType_Opt
        /\ findOptionalParam(optPrms, tok) # 0
        /\ ~isHelpOption(tok)
        /\ isVerOption(tok)
        /\ Read(tok)
    /\ result' = "exit"
    /\ pc' = "done"
    /\ UNCHANGED <<regVars, reqFullPosParams, errorMsg, mem, oob, argc, i,
                   posIdx, defIdx>>

\* The token is an option the scan goes on with: matched, and neither the
\* help nor the version option.
PlainOption(tok) ==
    /\ determineArgType(tok) = ArgType_Opt
    /\ findOptionalParam(optPrms, tok) # 0
    /\ ~isHelpOption(tok)
    /\ ~isVerOption(tok)

\* The switch with the index advanced past the token after it.
ScanSwitch_skipsNext ==
    /\ pc = "scan" /\ i < argc
    /\ \E tok \in Tokens :
        /\ PlainOption(tok)
        /\ LET pdef == optPrms[findOptionalParam(optPrms, tok)]
               w    == writeArg(<<"1">>, pdef, mem[pdef.dest])
           IN  /\ pdef.varType = VarType_True
               /\ Read(tok)
               /\ mem' = [mem EXCEPT ![pdef.dest] = w.val]
               /\ oob' = (oob \/ w.oob)
               /\ Written(w.status, Msg("Invalid value: arg %s, %s", tok, pdef.name, 0, 0))
               /\ i' = IF w.status # 0 THEN i ELSE i + 2
    /\ UNCHANGED <<regVars, reqFullPosParams, argc, posIdx, defIdx>>

\* A switch: writeArg("1", pdef).
ScanSwitch ==
    /\ pc = "scan" /\ i < argc
    /\ \E tok \in Tokens :
        /\ PlainOption(tok)
        /\ LET pdef == optPrms[findOptionalParam(optPrms, tok)]
               w    == writeArg(<<"1">>, pdef, mem[pdef.dest])
           IN  /\ pdef.varType = VarType_True
               /\ Read(tok)
               /\ mem' = [mem EXCEPT ![pdef.dest] = w.val]
               /\ oob' = (oob \/ w.oob)
               /\ Written(w.status, Msg("Invalid value: arg %s, %s", tok, pdef.name, 0, 0))
               /\ i' = IF w.status # 0 THEN i ELSE i + 1
    /\ UNCHANGED <<regVars, reqFullPosParams, argc, posIdx, defIdx>>

\* The test with argc in the place of argc - 1.
isLastToken_offByOne(k, n) == k = n

\* The test left out.
isLastToken_never(k, n) == FALSE

\* The test i == (argc - 1): argv[k] is the last token.
isLastToken(k, n) == k = n - 1

\* An option that takes a value is the last token.
ScanMissing ==
    /\ pc = "scan" /\ i < argc
    /\ isLastToken(i, argc)
    /\ \E tok \in Tokens :
        /\ PlainOption(tok)
        /\ optPrms[findOptionalParam(optPrms, tok)].varType # VarType_True
        /\ Read(tok)
        /\ Fail(Msg("Lack of the last argument: Near the arg %s.", tok, <<>>, 0, 0))
    /\ UNCHANGED <<regVars, reqFullPosParams, mem, oob, argc, i, posIdx, defIdx>>

\* The option read alone: the token after it is left to the next test of
\* the loop, which classifies it.
ScanValue_classifies ==
    /\ pc = "scan" /\ i < argc
    /\ ~isLastToken(i, argc)
    /\ \E tok \in Tokens :
        /\ PlainOption(tok)
        /\ optPrms[findOptionalParam(optPrms, tok)].varType # VarType_True
        /\ Read(tok)
    /\ i' = i + 1
    /\ UNCHANGED <<regVars, reqFullPosParams, errorMsg, mem, oob, pc, argc,
                   posIdx, defIdx, result>>

\* An option that takes a value, drawn from toks, and the token after it,
\* drawn from vals.
ScanValueOf(toks, vals) ==
    /\ pc = "scan" /\ i < argc
    /\ ~isLastToken(i, argc)
    /\ \E tok \in toks, v \in vals :
        /\ PlainOption(tok)
        /\ LET pdef == optPrms[findOptionalParam(optPrms, tok)]
               w    == writeArg(v, pdef, mem[pdef.dest])
           IN  /\ pdef.varType # VarType_True
               /\ ReadValue(tok, v)
               /\ mem' = [mem EXCEPT ![pdef.dest] = w.val]
               /\ oob' = (oob \/ w.oob)
               /\ Written(w.status, Msg("Invalid value: arg %s, %s", v, pdef.name, 0, 0))
               /\ i' = IF w.status # 0 THEN i + 1 ELSE i + 2
    /\ UNCHANGED <<regVars, reqFullPosParams, argc, posIdx, defIdx>>

ScanValue == ScanValueOf(Tokens, Tokens)

\* The end of the loop with the positional count always required.
ScanEnd_alwaysRequired ==
    /\ pc = "scan" /\ ~(i < argc)
    /\ IF posIdx < numPosPrms
       THEN Fail(Msg("Too few positonal arguments: Needs %d args. But has only %d args.",
                     <<>>, <<>>, numPosPrms, posIdx))
       ELSE /\ result' = "ok"
            /\ pc' = "done"
            /\ UNCHANGED errorMsg
    /\ UNCHANGED <<regVars, reqFullPosParams, mem, oob, argc, i, posIdx,
                   defIdx, argv, kind>>

\* The loop has ended: the check of the positional count, and the return.
ScanEnd ==
    /\ pc = "scan" /\ ~(i < argc)
    /\ IF posIdx < numPosPrms /\ reqFullPosParams
       THEN Fail(Msg("Too few positonal arguments: Needs %d args. But has only %d args.",
                     <<>>, <<>>, numPosPrms, posIdx))
       ELSE /\ result' = "ok"
            /\ pc' = "done"
            /\ UNCHANGED errorMsg
    /\ UNCHANGED <<regVars, reqFullPosParams, mem, oob, argc, i, posIdx,
                   defIdx, argv, kind>>

Next ==
    \/ ArgParser_requireFullPosParams
    \/ ArgParser_addInt
    \/ ArgParser_addUInt
    \/ ArgParser_addString
    \/ ArgParser_addBool
    \/ ArgParser_addInt32
    \/ ArgParser_addUInt32
    \/ ArgParser_addFloat
    \/ ArgParser_addDouble
    \/ ArgParser_addTrue
    \/ ArgParser_parse
    \/ writeDefaultParams_step
    \/ writeDefaultParams_return
    \/ ScanMalformed
    \/ ScanTooMany
    \/ ScanPositional
    \/ ScanUnknown
    \/ ScanHelp
    \/ ScanVersion
    \/ ScanSwitch
    \/ ScanMissing
    \/ ScanValue
    \/ ScanEnd

Spec == Init /\ [][Next]_vars

\* ArgParser_parse runs to its end once it is called: the body of a
\* function is executed statement after statement.
ParseStep ==
    \/ writeDefaultParams_step
    \/ writeDefaultParams_return
    \/ ScanMalformed
    \/ ScanTooMany
    \/ ScanPositional
    \/ ScanUnknown
    \/ ScanHelp
    \/ ScanVersion
    \/ ScanSwitch
    \/ ScanMissing
    \/ ScanValue
    \/ ScanEnd

SpecRun == Init /\ [][Next]_vars /\ WF_vars(ParseStep)

(***************************************************************************)
(* determineArgType on its own: the classifier applied to every non-empty  *)
(* token of up to MaxTokLen characters that are a dash, a digit or a       *)
(* letter.  argv[1] is the token, kind[1] what it is classified as.        *)
(***************************************************************************)
ClassifyChars == {"-", "5", "x"}

ClassifyTokens == UNION {[1..n -> ClassifyChars] : n \in 1..MaxTokLen}

InitClassify ==
    /\ progName = ProgName
    /\ progDesc = ProgDesc
    /\ version = <<>>
    /\ date = <<>>
    /\ author = <<>>
    /\ optPrms = <<NewHelp.pdef, NewVersion.pdef>>
    /\ posPrms = <<>>
    /\ reqFullPosParams = FALSE
    /\ errorMsg = MsgOK
    /\ bufIdx = NewVersion.bufIdx
    /\ mem = <<NumVal(0, 0), NumVal(0, 0)>>
    /\ oob = FALSE
    /\ nCalls = 0
    /\ pc = "classify"
    /\ argc = 2
    /\ i = 1
    /\ posIdx = 0
    /\ defIdx = 0
    /\ \E tok \in ClassifyTokens : argv = <<tok>>
    /\ kind = <<>>
    /\ result = "none"

Classify ==
    /\ pc = "classify"
    /\ kind' = <<determineArgType(argv[1])>>
    /\ pc' = "classified"
    /\ UNCHANGED <<regVars, reqFullPosParams, errorMsg, mem, oob, argc, i,
                   posIdx, defIdx, argv, result>>

NextClassify == Classify

SpecClassify == InitClassify /\ [][NextClassify]_vars

(***************************************************************************)
(* The lists filled to their capacity: after construction the caller makes *)
(* up to MaxFillCalls registration calls: first of optional unsigned       *)
(* parameters -o, then of positional int32 parameters.                     *)
(***************************************************************************)
FillOptional ==
    /\ numPosPrms = 0
    /\ RegisterWithin(MaxFillCalls, VarType_UInt, DefNum(5), Opt_o)

FillPositional == RegisterWithin(MaxFillCalls, VarType_Int32, DefNum(-3), NoOpt)

NextCapacity == FillOptional \/ FillPositional

SpecCapacity == Init /\ [][NextCapacity]_vars

(***************************************************************************)
(* The buffer run out of: the parser is constructed with a program         *)
(* description so long that BufFree bytes of the buffer are left, and the  *)
(* caller goes on with the registration calls, the metadata calls and the  *)
(* parse, so that copyStr fails at each of the places it is called from.   *)
(***************************************************************************)
LongText(n) == [k \in 1..n |-> "x"]

ProgDescLong ==
    LongText(strlen(ProgDesc) + APARSER_MAX_BUF - BufFree - NewVersion.bufIdx)

InitBuffer == ArgParser_new(ProgName, ProgDescLong)

NextBuffer ==
    \/ Next
    \/ ArgParser_addVersion
    \/ ArgParser_addDate
    \/ ArgParser_addAuthor

SpecBuffer == InitBuffer /\ [][NextBuffer]_vars

(***************************************************************************)
(* The lists filled and the buffer run out of: the parser is constructed   *)
(* with a program description so long that the buffer has room for the     *)
(* optional parameters -o that fill the optional list and BufFree bytes    *)
(* more, and the caller makes up to MaxFillCalls registration calls: of    *)
(* optional unsigned parameters -o first, then of positional int32        *)
(* parameters and, once the optional list is full, of positional string    *)
(* parameters.                                                             *)
(***************************************************************************)
\* The bytes of the buffer one registration of the optional parameter -o
\* takes: its two option strings, its name and its description, each with
\* its terminator.
FillBytes ==
    (strlen(Opt_o.s) + 1) + (strlen(Opt_o.l) + 1)
    + (strlen(ParamName) + 1) + (strlen(ParamDesc) + 1)

\* The options ArgParser_new registers: help and version.
BuiltIn == <<NewHelp.pdef, NewVersion.pdef>>

FullFree == (APARSER_MAX_ARG_PRMS - Len(BuiltIn)) * FillBytes + BufFree

ProgDescFull ==
    LongText(strlen(ProgDesc) + APARSER_MAX_BUF - FullFree - NewVersion.bufIdx)

InitFull == ArgParser_new(ProgName, ProgDescFull)

FillText ==
    /\ numOptPrms = APARSER_MAX_ARG_PRMS
    /\ RegisterWithin(MaxFillCalls, VarType_String, DefStr(<<"d">>, MaxStrLen), NoOpt)

NextFull == FillOptional \/ FillPositional \/ FillText

SpecFull == InitFull /\ [][NextFull]_vars

(***************************************************************************)
(* The conversions: the parser with one parameter registered, optional     *)
(* (-o) or positional, of any kind that takes a value, and an argument     *)
(* list made of values for it: numbers in and out of the range of the      *)
(* kind, with a sign, a prefix, leading space or trailing characters, and  *)
(* texts shorter and longer than the maximum length of a string parameter. *)
(***************************************************************************)
Text_hello_world == <<"h", "e", "l", "l", "o", " ", "w", "o", "r", "l", "d">>

ValueTokens ==
    { <<"7">>, <<"1", "x">>, <<"1", ".", "5">>, <<"a", "b", "c">>,
      <<"-", "5">>, <<"0", "8">>, <<"0", "1", "7">>, <<"0", "x", "1", "F">>,
      <<"2", "0", "0">>, <<"3", "0", "0">>, <<"7", "0", "0", "0", "0">>,
      <<" ", "7">>, <<>>, Text_hello_world }

\* The kind and the default of the parameter registered.
ConvertDefs ==
    { [varType |-> VarType_Int, defVal |-> DefNum(-123)],
      [varType |-> VarType_UInt, defVal |-> DefNum(5)],
      [varType |-> VarType_Bool, defVal |-> DefNum(1)],
      [varType |-> VarType_Int32, defVal |-> DefNum(-3)],
      [varType |-> VarType_UInt32, defVal |-> DefNum(ToUInt(9))],
      [varType |-> VarType_Float, defVal |-> DefDec(25, -1)],
      [varType |-> VarType_Double, defVal |-> DefDec(-5, -1)] }
    \cup { [varType |-> VarType_String, defVal |-> DefStr(d, len)] :
              d \in {<<>>, <<"d">>, Text_hello_world}, len \in 1..MaxClipLen }

ConvertRegister ==
    \E c \in ConvertDefs, o \in {NoOpt, Opt_o} :
        RegisterWithin(1, c.varType, c.defVal, o)

ConvertPositional == ScanPositionalOf(ValueTokens)

ConvertValue == ScanValueOf({Tok_o}, ValueTokens)

NextConvert ==
    \/ ConvertRegister
    \/ ArgParser_parse
    \/ writeDefaultParams_step
    \/ writeDefaultParams_return
    \/ ConvertPositional
    \/ ConvertValue
    \/ ScanEnd

SpecConvert == Init /\ [][NextConvert]_vars

(***************************************************************************)
(* String parameters of every maximum length: the caller registers one     *)
(* string parameter, optional -o or positional, with a maximum length from *)
(* 0 to MaxClipLen, and parses an argument list of value tokens.           *)
(***************************************************************************)
LengthDefs ==
    { [varType |-> VarType_String, defVal |-> DefStr(d, len)] :
         d \in {<<>>, <<"d">>, Text_hello_world}, len \in 0..MaxClipLen }

LengthRegister ==
    \E c \in LengthDefs, o \in {NoOpt, Opt_o} :
        RegisterWithin(1, c.varType, c.defVal, o)

NextLength ==
    \/ LengthRegister
    \/ ArgParser_parse
    \/ writeDefaultParams_step
    \/ writeDefaultParams_return
    \/ ConvertPositional
    \/ ConvertValue
    \/ ScanEnd

SpecLength == Init /\ [][NextLength]_vars

(***************************************************************************)
(* What the properties below are stated with.                              *)
(***************************************************************************)
\* The registered definitions, optional then positional, each list in
\* registration order.
Registered == optPrms \o posPrms

\* The cell that is a definition's registered default.
DefaultCell(pdef) ==
    IF pdef.varType = VarType_String
    THEN StrVal(pdef.defVal.s)
    ELSE NumVal(pdef.defVal.n, pdef.defVal.e)

\* The cell a destination holds when ArgParser_parse is called: the two
\* flags of the parser are zeroed by ArgParser_new, the caller's variables
\* are not initialised.
CellAtCall(loc) == IF loc \in {HelpLoc, VerLoc} THEN NumVal(0, 0) ELSE Uninit

\* Every registered destination holds its registered default.
AllDefaults ==
    \A k \in 1..Len(Registered) :
        mem[Registered[k].dest] = DefaultCell(Registered[k])

(***************************************************************************)
(* C1.  The default pass.                                                  *)
(***************************************************************************)
\* No token has been read inside the default pass, the defIdx definitions
\* written are the first defIdx of Registered and the others are untouched;
\* when the scan starts every destination holds its default.
DefaultPassFirst ==
    /\ pc = "defaults" =>
          /\ argv = <<>>
          /\ \A k \in 1..Len(Registered) :
                mem[Registered[k].dest] =
                    IF k <= defIdx THEN DefaultCell(Registered[k])
                    ELSE CellAtCall(Registered[k].dest)
    /\ (pc = "scan" /\ argv = <<>>) => AllDefaults

\* C1, as stated: ArgParser_parse writes every registered parameter's
\* default into its destination, the optional parameters in registration
\* order and then the positional ones, before the first token is
\* classified; and a parse of no tokens (argc = 1) returns success with
\* every destination equal to its default.
C1_AsStated ==
    /\ DefaultPassFirst
    /\ (pc = "done" /\ argc = 1) => (result = "ok" /\ argv = <<>> /\ AllDefaults)

\* C1, amended: the default pass is as stated, and a parse of no tokens
\* leaves every destination equal to its default; it returns success unless
\* ArgParser_requireFullPosParams was called and a positional parameter is
\* registered, and then it returns failure with the too-few-positional-
\* arguments error.
C1_DefaultsBeforeScan ==
    /\ DefaultPassFirst
    /\ (pc = "done" /\ argc = 1) =>
          /\ argv = <<>>
          /\ AllDefaults
          /\ IF reqFullPosParams /\ numPosPrms > 0
             THEN /\ result = "fail"
                  /\ errorMsg = Msg("Too few positonal arguments: Needs %d args. But has only %d args.",
                                    <<>>, <<>>, numPosPrms, 0)
             ELSE result = "ok"

\* A parse of no tokens has returned success, with an option and a positional
\* int parameter of default -123 registered: its destination holds -123.
C1_Witness ==
    /\ pc = "done" /\ argc = 1 /\ result = "ok"
    /\ numOptPrms = 3
    /\ numPosPrms = 1
    /\ posPrms[1].varType = VarType_Int
    /\ mem[posPrms[1].dest] = NumVal(-123, 0)

(***************************************************************************)
(* C2.  No partial application.                                            *)
(***************************************************************************)
\* C2: a value token whose conversion fails leaves the destination
\* unchanged: a step in which ArgParser_parse fails changes no destination.
\* (writeArg stores what strtoul, strtof or strtod returned before it tests
\* errPtr, so this does not hold: "-i 1x" leaves 1 in the destination.)
C2_FailureLeavesDestinations ==
    [][(pc = "scan" /\ result' = "fail") => mem' = mem]_vars

(***************************************************************************)
(* The scan, as the properties of C3 to C9 see it.                         *)
(***************************************************************************)
\* The tokens read so far, each with how the scan took it, and those of
\* them that were classified as positional.
Taken == [j \in 1..Len(argv) |-> [tok |-> argv[j], kind |-> kind[j]]]

IsPositional(t) == t.kind = ArgType_NoOpt

PosTaken == SelectSeq(Taken, IsPositional)

\* The look-up rule: a token resolves to the earliest registered optional
\* definition whose short or long option string it equals.
Matches(tok, k) == tok = optPrms[k].sOpt \/ tok = optPrms[k].lOpt

Resolves(tok, k) == Matches(tok, k) /\ \A j \in 1..(k - 1) : ~Matches(tok, j)

HelpVersionTokens == {Tok_h, Tok_help, Tok_v, Tok_version}

\* A step of the scan that reaches a token, i.e. reads argv[i] to classify
\* it, and that token.
ReachesToken == pc = "scan" /\ i < argc /\ Len(argv') > Len(argv)

TokenReached == argv'[Len(argv) + 1]

\* Whether a token converts to the kind of a definition, and the cell it
\* converts to.
Converts(tok, pdef) == writeArg(tok, pdef, Uninit).status = 0

Converted(tok, pdef) == writeArg(tok, pdef, Uninit).val

(***************************************************************************)
(* C3.  An option and its value.                                           *)
(***************************************************************************)
\* C3: when the scan reaches a token that is the short or the long option
\* string of a registered value-taking option (the definition the look-up
\* resolves it to is not a switch) and a token follows it (i < argc - 1),
\* the step reads that token as the value; if it converts, the converted
\* value is written into the option's destination, no other destination
\* changes, the index advances by exactly two and the scan goes on.  The
\* outcome depends on the definition and the value only, so the short and
\* the long option string of one definition give the same result.
C3_OptionValueWritten ==
    [][\A k \in 1..numOptPrms :
          (/\ ReachesToken
           /\ Resolves(TokenReached, k)
           /\ optPrms[k].varType # VarType_True
           /\ i < argc - 1)
          => /\ Len(argv') = Len(argv) + 2
             /\ kind'[Len(argv) + 2] = Value
             /\ Converts(argv'[Len(argv) + 2], optPrms[k]) =>
                   /\ mem' = [mem EXCEPT ![optPrms[k].dest] =
                                  Converted(argv'[Len(argv) + 2], optPrms[k])]
                   /\ i' = i + 2
                   /\ pc' = "scan"
                   /\ result' = "none"
                   /\ errorMsg' = errorMsg]_vars

\* "--ip 7" has been scanned against an int option -i/--ip: its destination
\* holds 7 and the index went from 1 to 3.
C3_Witness ==
    /\ pc = "scan" /\ i = 3
    /\ argv = <<Tok_ip, <<"7">>>>
    /\ kind = <<ArgType_Opt, Value>>
    /\ numOptPrms >= 3
    /\ optPrms[3].varType = VarType_Int
    /\ optPrms[3].sOpt = Tok_i /\ optPrms[3].lOpt = Tok_ip
    /\ mem[optPrms[3].dest] = NumVal(7, 0)

(***************************************************************************)
(* C4.  An option without its value.                                       *)
(***************************************************************************)
\* C4: when the scan reaches a registered value-taking option token (not a
\* switch, not the help or the version option) that is the last token of
\* the argument list (i = argc - 1), parse returns failure with the
\* missing-value error naming that token, reads no further token, and no
\* destination changes.
C4_MissingValue ==
    [][\A k \in 1..numOptPrms :
          (/\ ReachesToken
           /\ Resolves(TokenReached, k)
           /\ optPrms[k].varType # VarType_True
           /\ TokenReached \notin HelpVersionTokens
           /\ i = argc - 1)
          => /\ Len(argv') = Len(argv) + 1
             /\ result' = "fail"
             /\ pc' = "done"
             /\ errorMsg' = Msg("Lack of the last argument: Near the arg %s.",
                                TokenReached, <<>>, 0, 0)
             /\ mem' = mem]_vars

\* "-i" alone has been parsed against an int option -i/--ip of default
\* -123: failure, the message names -i, the destination holds -123.
C4_Witness ==
    /\ pc = "done" /\ result = "fail" /\ argc = 2
    /\ argv = <<Tok_i>>
    /\ errorMsg = Msg("Lack of the last argument: Near the arg %s.",
                      Tok_i, <<>>, 0, 0)
    /\ numOptPrms >= 3
    /\ optPrms[3].varType = VarType_Int
    /\ optPrms[3].sOpt = Tok_i
    /\ mem[optPrms[3].dest] = NumVal(-123, 0)

C6_TooManyPositionals ==
    [][(/\ ReachesToken
        /\ kind'[Len(argv) + 1] = ArgType_NoOpt
        /\ Len(PosTaken) = numPosPrms)
       => /\ result' = "fail"
          /\ pc' = "done"
          /\ errorMsg' = Msg("Too many positonal arguments: Near the arg '%s'. Needs %d positional args. But has more args.",
                             TokenReached, <<>>, numPosPrms, 0)
          /\ mem' = mem]_vars

\* "7 7" has been parsed against one positional int parameter: failure at
\* the second token, the destination holds the 7 of the first.
C6_Witness ==
    /\ pc = "done" /\ result = "fail"
    /\ argv = <<<<"7">>, <<"7">>>>
    /\ numPosPrms = 1
    /\ posPrms[1].varType = VarType_Int
    /\ mem[posPrms[1].dest] = NumVal(7, 0)
    /\ errorMsg.n1 = 1
    /\ errorMsg.arg = <<"7">>

(***************************************************************************)
(* C7.  Too few positional tokens.                                         *)
(***************************************************************************)
\* C7: when the scan has completed without error (the loop ended, i >= argc)
\* with fewer positional tokens than registered positional parameters,
\* parse has returned failure, with the too-few-positional-arguments error
\* giving the two counts, if ArgParser_requireFullPosParams was called, and
\* success if it was not; in the latter case every unfilled positional
\* destination holds its default.
C7_TooFewPositionals ==
    (pc = "done" /\ i >= argc /\ Len(PosTaken) < numPosPrms) =>
        /\ result = (IF reqFullPosParams THEN "fail" ELSE "ok")
        /\ result = "fail" =>
              errorMsg = Msg("Too few positonal arguments: Needs %d args. But has only %d args.",
                             <<>>, <<>>, numPosPrms, Len(PosTaken))
        /\ result = "ok" =>
              \A k \in (Len(PosTaken) + 1)..numPosPrms :
                  mem[posPrms[k].dest] = DefaultCell(posPrms[k])

\* "7" has been parsed against two positional parameters without
\* ArgParser_requireFullPosParams: success, the first holds 7 and the
\* second its default.
C7_Witness ==
    /\ pc = "done" /\ result = "ok"
    /\ ~reqFullPosParams
    /\ argv = <<<<"7">>>>
    /\ numPosPrms = 2
    /\ posPrms[1].varType = VarType_Int
    /\ mem[posPrms[1].dest] = NumVal(7, 0)
    /\ mem[posPrms[2].dest] = DefaultCell(posPrms[2])

(***************************************************************************)
(* C8.  Switches.                                                          *)
(***************************************************************************)
\* The switches registered with ArgParser_addTrue (the first two optional
\* definitions are the help and the version option of ArgParser_new).
Switches == {k \in 3..numOptPrms : optPrms[k].varType = VarType_True}

\* The token at index j was reached at an option position and resolved to
\* the definition k.
OccursAt(k, j) == kind[j] = ArgType_Opt /\ Resolves(argv[j], k)

\* C8: after a successful parse the destination of a switch is true if a
\* token resolved to it was reached at an option position and false if
\* none was; the token after a switch token is never taken as a value (it
\* is classified on its own), and when the switch token is the last one
\* read the index is one past it.
C8_Switch ==
    \A k \in Switches :
        /\ (pc = "done" /\ result = "ok") =>
              mem[optPrms[k].dest] =
                  NumVal(IF \E j \in 1..Len(argv) : OccursAt(k, j) THEN 1 ELSE 0, 0)
        /\ \A j \in 1..Len(argv) :
              OccursAt(k, j) =>
                  /\ j < Len(argv) => kind[j + 1] # Value
                  /\ (j = Len(argv) /\ pc = "scan") => i = j + 1

\* "-w 7" has been parsed against a switch -w and a positional int
\* parameter: the switch is true and the 7 went to the positional parameter.
C8_Witness ==
    /\ pc = "done" /\ result = "ok"
    /\ argv = <<Tok_w, <<"7">>>>
    /\ kind = <<ArgType_Opt, ArgType_NoOpt>>
    /\ numOptPrms = 3
    /\ optPrms[3].varType = VarType_True
    /\ mem[optPrms[3].dest] = NumVal(1, 0)
    /\ numPosPrms = 1
    /\ mem[posPrms[1].dest] = NumVal(7, 0)

(***************************************************************************)
(* C9.  The help and the version option.                                   *)
(***************************************************************************)
\* C9: whatever is registered, when the scan reaches -h, --help, -v or
\* --version at an option position, the step ends the parse with exit(0):
\* it reads no further token, no destination and no error message changes,
\* and nothing happens after it, so that no later token is classified and
\* parse returns no failure.
C9_HelpVersionExit ==
    [][/\ result # "exit"
       /\ (ReachesToken /\ TokenReached \in HelpVersionTokens) =>
             /\ result' = "exit"
             /\ pc' = "done"
             /\ Len(argv') = Len(argv) + 1
             /\ mem' = mem
             /\ errorMsg' = errorMsg]_vars

\* "-h" has been reached with a token left after it, the caller having
\* registered an int option -h of its own: exit(0), and the caller's
\* destination holds its default.
C9_Witness ==
    /\ pc = "done" /\ result = "exit"
    /\ argc = 3
    /\ argv = <<Tok_h>>
    /\ numOptPrms = 3
    /\ optPrms[3].sOpt = Tok_h
    /\ optPrms[3].varType = VarType_Int
    /\ mem[optPrms[3].dest] = NumVal(-123, 0)
    /\ mem[HelpLoc] = NumVal(0, 0)

(***************************************************************************)
(* C10.  The classifier.                                                   *)
(***************************************************************************)
\* The number of dashes a token begins with.
RECURSIVE LeadingDashes(_)
LeadingDashes(tok) ==
    IF tok # <<>> /\ Head(tok) = "-" THEN 1 + LeadingDashes(Tail(tok)) ELSE 0

\* One or two dashes followed by a character that is not a dash.
ShapeOption(tok) ==
    LeadingDashes(tok) \in {1, 2} /\ Len(tok) > LeadingDashes(tok)

\* Exactly "-", exactly "--", or three or more dashes at the start.
ShapeMalformed(tok) ==
    tok = <<"-">> \/ tok = <<"-", "-">> \/ LeadingDashes(tok) >= 3

\* No dash at the start.
ShapePositional(tok) == Head(tok) # "-"

\* C10: determineArgType returns one of its three results for every
\* non-empty token: Option exactly for a token that is one or two dashes
\* followed by a non-dash character, Malformed exactly for "-", "--" and
\* the tokens that begin with three or more dashes, Positional exactly for
\* the tokens that do not begin with a dash; so no token that begins with
\* a dash, a negative number included, is Positional.
C10_Classification ==
    pc = "classified" =>
        /\ kind[1] \in {ArgType_Opt, ArgType_NoOpt, ArgType_Error}
        /\ kind[1] = ArgType_Opt <=> ShapeOption(argv[1])
        /\ kind[1] = ArgType_Error <=> ShapeMalformed(argv[1])
        /\ kind[1] = ArgType_NoOpt <=> ShapePositional(argv[1])
        /\ Head(argv[1]) = "-" => kind[1] # ArgType_NoOpt

\* "---x" has been classified as malformed.
C10_Witness ==
    /\ pc = "classified"
    /\ argv = <<<<"-", "-", "-", "x">>>>
    /\ kind = <<ArgType_Error>>

(***************************************************************************)
(* C11.  The capacity of the two lists.                                    *)
(***************************************************************************)
\* What a registration call does to the lists, the message and the buffer
\* when it succeeds and appends to the list grown, leaving other alone, and
\* when it fails with the message msg.
Appends(grown, grownNext, other, otherNext) ==
    /\ Len(grownNext) = Len(grown) + 1
    /\ SubSeq(grownNext, 1, Len(grown)) = grown
    /\ otherNext = other
    /\ errorMsg' = errorMsg

Refused(msg) ==
    /\ optPrms' = optPrms
    /\ posPrms' = posPrms
    /\ bufIdx' = bufIdx
    /\ errorMsg' = msg

\* C11: with strings that fit the buffer, a registration call made when
\* its list holds fewer than APARSER_MAX_ARG_PRMS (32) definitions succeeds
\* and appends one definition, the 32nd included; a call made when its list
\* holds 32 fails with the capacity error of that list and changes neither
\* list; and (the step being taken from any reachable state) no list ever
\* holds more than 32.
C11_Capacity ==
    [][/\ numOptPrms <= 32 /\ numPosPrms <= 32
       /\ numOptPrms' <= 32 /\ numPosPrms' <= 32
       /\ FillOptional =>
             IF numOptPrms < 32
             THEN Appends(optPrms, optPrms', posPrms, posPrms')
             ELSE Refused(Msg0("Maximum number of optional parameters reached.\n"))
       /\ FillPositional =>
             IF numPosPrms < 32
             THEN Appends(posPrms, posPrms', optPrms, optPrms')
             ELSE Refused(Msg0("Maximum number of positional parameters reached.\n"))]_vars

\* The optional list holds 32 definitions, a further optional call was
\* refused and the positional registrations after it went through.
C11_Witness ==
    /\ numOptPrms = 32
    /\ numPosPrms = 3
    /\ nCalls = 34
    /\ errorMsg = Msg0("Maximum number of optional parameters reached.\n")

(***************************************************************************)
(* C12.  A malformed token.                                                *)
(***************************************************************************)
\* C12: when the scan reaches a malformed token (one dash or two and
\* nothing else, or three or more leading dashes), parse returns failure
\* with the error message naming that token; the step reads that token
\* only and changes no destination, and after parse has ended no step is
\* taken, so no later token is classified, looked up or converted and the
\* destinations and the message do not depend on what follows the token.
C12_MalformedStops ==
    [][/\ pc # "done"
       /\ (ReachesToken /\ ShapeMalformed(TokenReached))
          => /\ Len(argv') = Len(argv) + 1
             /\ kind'[Len(argv) + 1] = ArgType_Error
             /\ result' = "fail"
             /\ pc' = "done"
             /\ errorMsg' = Msg("Irregal argument type: Near the arg '%s'.",
                                TokenReached, <<>>, 0, 0)
             /\ mem' = mem]_vars

\* "--" was the first of two tokens, against a positional int of default
\* -123: parse has failed naming "--", the token after it was never read
\* and the destination holds the default.
C12_Witness ==
    /\ pc = "done" /\ result = "fail" /\ argc = 3
    /\ argv = << <<"-", "-">> >>
    /\ errorMsg = Msg("Irregal argument type: Near the arg '%s'.",
                      <<"-", "-">>, <<>>, 0, 0)
    /\ numPosPrms = 1
    /\ posPrms[1].varType = VarType_Int
    /\ mem[posPrms[1].dest] = NumVal(-123, 0)

(***************************************************************************)
(* C13.  An unknown option.                                                *)
(***************************************************************************)
\* C13: when the scan reaches an option-shaped token that equals neither
\* the short nor the long option string of any registered optional
\* parameter (a token that only begins with one, or only begins one, is
\* not equal to it), parse returns failure with the unknown-option error
\* naming the token, reads no further token and writes no destination.
C13_UnknownOption ==
    [][(/\ ReachesToken
        /\ ShapeOption(TokenReached)
        /\ \A k \in 1..numOptPrms : ~Matches(TokenReached, k))
       => /\ Len(argv') = Len(argv) + 1
          /\ result' = "fail"
          /\ pc' = "done"
          /\ errorMsg' = Msg("Unknown option: Near the arg. %s",
                             TokenReached, <<>>, 0, 0)
          /\ mem' = mem]_vars

\* "-ip 7" was parsed against an int option -i/--ip of default -123: parse
\* has failed with the unknown-option error naming -ip, "7" was not read
\* and the destination holds the default.
C13_Witness ==
    /\ pc = "done" /\ result = "fail" /\ argc = 3
    /\ argv = <<Tok_i_longer>>
    /\ errorMsg = Msg("Unknown option: Near the arg. %s",
                      Tok_i_longer, <<>>, 0, 0)
    /\ numOptPrms = 3
    /\ optPrms[3].sOpt = Tok_i /\ optPrms[3].lOpt = Tok_ip
    /\ optPrms[3].varType = VarType_Int
    /\ mem[optPrms[3].dest] = NumVal(-123, 0)

(***************************************************************************)
(* C14.  Option strings registered more than once.                         *)
(***************************************************************************)
\* The definition j can be reached by no token: each of its option strings
\* is an option string of a definition registered before it.
Shadowed(j) ==
    /\ optPrms[j].sOpt # <<>> => \E k \in 1..(j - 1) : Matches(optPrms[j].sOpt, k)
    /\ optPrms[j].lOpt # <<>> => \E k \in 1..(j - 1) : Matches(optPrms[j].lOpt, k)

\* The default pass is over: the scan is running or parse has ended.
DefaultsWritten == pc \in {"scan", "done"}

\* C14: a registration call whose option string an earlier optional
\* parameter already uses is accepted like any other (the definition is
\* appended, no error message is set); when the scan reaches an option
\* token it resolves it to the earliest registered definition with that
\* option string, so the step writes no destination but that definition's,
\* the destination of a later definition with the same string is not
\* written by the token, and a definition whose every option string is
\* taken by earlier ones holds its default throughout the scan.
C14_EarliestWins ==
    [][/\ (pc = "config" /\ nCalls' = nCalls + 1)
          => /\ numOptPrms' + numPosPrms' = numOptPrms + numPosPrms + 1
             /\ errorMsg' = errorMsg
       /\ \A k \in 1..numOptPrms :
             (ReachesToken /\ Resolves(TokenReached, k))
             => /\ \A loc \in 1..Len(mem) :
                      loc # optPrms[k].dest => mem'[loc] = mem[loc]
                /\ \A j \in (k + 1)..numOptPrms :
                      Matches(TokenReached, j)
                      => mem'[optPrms[j].dest] = mem[optPrms[j].dest]
       /\ DefaultsWritten'
          => \A j \in 1..numOptPrms :
                Shadowed(j) => mem'[optPrms[j].dest] = DefaultCell(optPrms[j])]_vars

\* -o was registered twice, for an unsigned parameter of default 5 and
\* then for a bool parameter of default 1; "-o 7" has been scanned: the
\* first destination holds 7, the second still its default.
C14_Witness ==
    /\ pc = "scan" /\ i = 3
    /\ argv = <<Tok_o, <<"7">>>>
    /\ numOptPrms = 4
    /\ optPrms[3].sOpt = Tok_o /\ optPrms[3].varType = VarType_UInt
    /\ optPrms[4].sOpt = Tok_o /\ optPrms[4].varType = VarType_Bool
    /\ mem[optPrms[3].dest] = NumVal(7, 0)
    /\ mem[optPrms[4].dest] = NumVal(1, 0)

(***************************************************************************)
(* C15.  String values are clipped to the maximum length.                  *)
(***************************************************************************)
\* The one parameter the caller registered, and the text last written into
\* its destination: the last value token read, the default before any.
TheParam == IF numPosPrms > 0 THEN posPrms[1] ELSE optPrms[3]

IsValueToken(t) == t.kind \in {Value, ArgType_NoOpt}

ValuesTaken == SelectSeq(Taken, IsValueToken)

TextWritten ==
    IF ValuesTaken = <<>> THEN TheParam.defVal.s
    ELSE ValuesTaken[Len(ValuesTaken)].tok

\* The cell holds the first min(length of text, L - 1) characters of text.
ClippedTo(text, L, cell) ==
    /\ cell.init
    /\ Len(cell.s) = (IF Len(text) < L - 1 THEN Len(text) ELSE L - 1)
    /\ \A k \in 1..Len(cell.s) : cell.s[k] = text[k]

\* C15: for a string parameter of maximum length L >= 1, once the default
\* and then a value token have been written, the destination holds the
\* first min(length of the text, L - 1) characters of the text, so its
\* terminator is at an index of at most L - 1 and nothing is stored outside
\* the destination, and the conversion does not fail; with L = 5 and the
\* text "hello world" the destination holds "hell".
C15_StringClipped ==
    (/\ DefaultsWritten
     /\ numOptPrms + numPosPrms = 3
     /\ TheParam.varType = VarType_String
     /\ TheParam.defVal.len >= 1)
    => /\ ClippedTo(TextWritten, TheParam.defVal.len, mem[TheParam.dest])
       /\ Len(mem[TheParam.dest].s) <= TheParam.defVal.len - 1
       /\ ~oob
       /\ result # "fail"
       /\ (TheParam.defVal.len = 5 /\ TextWritten = Text_hello_world)
          => mem[TheParam.dest].s = <<"h", "e", "l", "l">>

\* "hello world" was given for a positional string parameter of maximum
\* length 5 and default "d": parse has returned success and the destination
\* holds "hell".
C15_Witness ==
    /\ pc = "done" /\ result = "ok"
    /\ numPosPrms = 1
    /\ posPrms[1].varType = VarType_String
    /\ posPrms[1].defVal = DefStr(<<"d">>, 5)
    /\ argv = <<Text_hello_world>>
    /\ mem[posPrms[1].dest] = StrVal(<<"h", "e", "l", "l">>)

(***************************************************************************)
(* C16.  The error message.                                                *)
(***************************************************************************)
\* A step that is a registration or metadata call that returned non-zero
\* (it stored nothing in the buffer; a call that returns 0 stores at least
\* a terminator), and a step in which ArgParser_parse returns 1.
CallFailed == pc = "config" /\ nCalls' = nCalls + 1 /\ bufIdx' = bufIdx

ParseFailed == pc # "done" /\ result' = "fail"

\* The formats of the messages the registration and metadata calls set,
\* and of those ArgParser_parse sets.
CallErrors ==
    { "Maximum number of optional parameters reached.\n",
      "Maximum number of positional parameters reached.\n",
      "Cannot store string-type default value. '%s'\n",
      "Cannot store short option. '%s'\n",
      "Cannot store the string '%s'.",
      "Cannot add version string.",
      "Cannot add release date.",
      "Cannot add author name." }

ParseErrors ==
    { "Irregal argument type: Near the arg '%s'.",
      "Too many positonal arguments: Near the arg '%s'. Needs %d positional args. But has more args.",
      "Invalid value: arg %s, %s",
      "Unknown option: Near the arg. %s",
      "Lack of the last argument: Near the arg %s.",
      "Too few positonal arguments: Needs %d args. But has only %d args." }

\* C16: the error message is "OK." after construction and stays what it is
\* through every operation that succeeds, so it is "OK." as long as no
\* operation has failed; an operation that fails leaves one message, its
\* own, in the place of the one before, and that message then stays until
\* the next failure: ArgParser_getErrorMsg returns the message of the most
\* recent failing operation.
C16_ErrorMessage ==
    [][/\ (pc = "config" /\ nCalls = 0) => errorMsg = MsgOK
       /\ ~(CallFailed \/ ParseFailed) => errorMsg' = errorMsg
       /\ (CallFailed \/ ParseFailed)
          => /\ errorMsg' # MsgOK
             /\ errorMsg'.fmt \in CallErrors \cup ParseErrors]_vars

\* The first registration failed (the parameter name did not fit the
\* buffer), the second, of a positional parameter, succeeded and so did
\* the parse of "7": the message is still that of the failed registration.
C16_Witness ==
    /\ pc = "done" /\ result = "ok"
    /\ nCalls = 2
    /\ numOptPrms = 2 /\ numPosPrms = 1
    /\ argv = << <<"7">> >>
    /\ errorMsg = Msg("Cannot store the string '%s'.", ParamName, <<>>, 0, 0)

(***************************************************************************)
(* C17.  Numbers outside the range of an integer kind.                     *)
(***************************************************************************)
\* The number a token of decimal digits, with or without a minus sign,
\* denotes.
DecimalDigits == <<"0", "1", "2", "3", "4", "5", "6", "7", "8", "9">>

IsDigits(tok) ==
    /\ Len(tok) > 0
    /\ \A k \in 1..Len(tok) : \E d \in 1..10 : tok[k] = DecimalDigits[d]

IsDecimal(tok) ==
    IF Len(tok) > 0 /\ tok[1] = "-" THEN IsDigits(Tail(tok)) ELSE IsDigits(tok)

RECURSIVE DigitsValue(_)
DigitsValue(tok) ==
    IF tok = <<>> THEN 0
    ELSE 10 * DigitsValue(SubSeq(tok, 1, Len(tok) - 1))
         + (CHOOSE d \in 1..10 : tok[Len(tok)] = DecimalDigits[d]) - 1

DecimalValue(tok) ==
    IF tok[1] = "-" THEN 0 - DigitsValue(Tail(tok)) ELSE DigitsValue(tok)

\* The values of the integer kinds (int and int32_t, unsigned int and
\* uint32_t, all of IntBits bits).
SignedKinds == {VarType_Int, VarType_Int32}

UnsignedKinds == {VarType_UInt, VarType_UInt32}

InRange(v, varType) ==
    IF varType \in SignedKinds
    THEN 0 - 2^(IntBits - 1) <= v /\ v < 2^(IntBits - 1)
    ELSE 0 <= v /\ v < 2^IntBits

\* C17: for a parameter of an integer kind, a value token whose number
\* lies outside the range of the kind makes parse return failure with the
\* conversion error naming the token.  (writeArg assigns what strtoul
\* returned to the destination through a cast and tests only the character
\* the conversion stopped at, so this does not hold: "-5" for an unsigned
\* parameter is stored as 2^IntBits - 5 and parse returns success.)
C17_OutOfRangeRejected ==
    (/\ DefaultsWritten
     /\ numOptPrms + numPosPrms = 3
     /\ TheParam.varType \in SignedKinds \cup UnsignedKinds
     /\ ValuesTaken # <<>>
     /\ IsDecimal(TextWritten)
     /\ ~InRange(DecimalValue(TextWritten), TheParam.varType))
    => /\ result = "fail"
       /\ errorMsg = Msg("Invalid value: arg %s, %s", TextWritten,
                         TheParam.name, 0, 0)

(***************************************************************************)
(* C18.  Value tokens with characters left over.                           *)
(***************************************************************************)
\* The shapes of numbers.  A token may begin with white space and a sign;
\* what follows is a decimal number that does not begin with 0, a 0
\* followed by octal digits, 0x followed by hex digits, or (for float and
\* double) decimal digits with at most one point among them.
RECURSIVE SkipBlanks(_)
SkipBlanks(tok) ==
    IF tok # <<>> /\ tok[1] = " " THEN SkipBlanks(Tail(tok)) ELSE tok

SkipSign(tok) ==
    IF tok # <<>> /\ tok[1] \in {"-", "+"} THEN Tail(tok) ELSE tok

Unsigned(tok) == SkipSign(SkipBlanks(tok))

OctalDigits == {"0", "1", "2", "3", "4", "5", "6", "7"}

HexDigits ==
    {DecimalDigits[d] : d \in 1..10}
    \cup {"a", "b", "c", "d", "e", "f", "A", "B", "C", "D", "E", "F"}

IsPlainDecimal(r) == IsDigits(r) /\ r[1] # "0"

IsOctal(r) ==
    /\ Len(r) > 0 /\ r[1] = "0"
    /\ \A k \in 1..Len(r) : r[k] \in OctalDigits

IsHex(r) ==
    /\ Len(r) > 2 /\ r[1] = "0" /\ r[2] \in {"x", "X"}
    /\ \A k \in 3..Len(r) : r[k] \in HexDigits

IsFraction(r) ==
    /\ \E k \in 1..Len(r) : r[k] # "."
    /\ \A k \in 1..Len(r) : r[k] = "." \/ IsDigits(<<r[k]>>)
    /\ \A j, k \in 1..Len(r) : (r[j] = "." /\ r[k] = ".") => j = k

FloatKinds == {VarType_Float, VarType_Double}

NumericKinds ==
    SignedKinds \cup UnsignedKinds \cup FloatKinds \cup {VarType_Bool}

\* The token is, as a whole, a number as the conversion of the kind reads
\* numbers.
IsLiteral(tok, varType) ==
    IF varType \in FloatKinds
    THEN IsFraction(Unsigned(tok)) \/ IsHex(Unsigned(tok))
    ELSE IsPlainDecimal(Unsigned(tok)) \/ IsOctal(Unsigned(tok))
         \/ IsHex(Unsigned(tok))

\* The token is made of digits only: decimal digits, or hex digits after
\* 0x, or octal digits after 0.
IsAllDigits(tok) == IsDigits(tok) \/ IsHex(tok) \/ IsOctal(tok)

\* A value token has been read for the one parameter, of a numeric or
\* boolean kind.
NumericValueRead ==
    /\ DefaultsWritten
    /\ numOptPrms + numPosPrms = 3
    /\ TheParam.varType \in NumericKinds
    /\ ValuesTaken # <<>>

\* Parse has failed at the value token with the message that names the
\* token and the parameter, and has read no token after it.
FailedAtValue ==
    /\ result = "fail"
    /\ pc = "done"
    /\ argv[Len(argv)] = TextWritten
    /\ errorMsg = Msg("Invalid value: arg %s, %s", TextWritten,
                      TheParam.name, 0, 0)

\* C18, as stated: for every numeric or boolean kind a value token with
\* characters left over after its numeric prefix (a token that is not
\* empty and not as a whole a number) makes parse fail with the message
\* naming the token and the parameter, no later token being processed, and
\* a token made of digits only (decimal, or with a hex or octal prefix)
\* never fails conversion.  ("08" is made of decimal digits and fails for
\* the integer and boolean kinds: the leading 0 makes strtoul read octal,
\* and it stops at the 8.)
C18_AsStated ==
    NumericValueRead
    => /\ (TextWritten # <<>> /\ ~IsLiteral(TextWritten, TheParam.varType))
          => FailedAtValue
       /\ IsAllDigits(TextWritten) => result # "fail"

\* C18, amended: a value token that is not empty and is not as a whole a
\* number as the conversion of the kind reads numbers makes parse fail with
\* the message naming the token and the parameter, no later token being
\* processed; a token that is as a whole such a number, and the empty
\* token, do not fail.  For the integer and boolean kinds a number is an
\* optional sign and a decimal number without a leading 0, a 0 followed by
\* octal digits, or 0x followed by hex digits, so a token of decimal
\* digits that begins with 0 and has an 8 or a 9 fails.
C18_TrailingCharacters ==
    NumericValueRead
    => IF TextWritten # <<>> /\ ~IsLiteral(TextWritten, TheParam.varType)
       THEN FailedAtValue
       ELSE result # "fail" /\ errorMsg = MsgOK

\* "08" was the first of two tokens, for a positional int parameter: parse
\* has failed with the message naming "08" and the parameter, and the
\* token after it was not read.
C18_Witness ==
    /\ pc = "done" /\ result = "fail" /\ argc = 3
    /\ numPosPrms = 1
    /\ posPrms[1].varType = VarType_Int
    /\ argv = << <<"0", "8">> >>
    /\ errorMsg = Msg("Invalid value: arg %s, %s", <<"0", "8">>,
                      posPrms[1].name, 0, 0)

(***************************************************************************)
(* C19.  Stored definitions are not changed.                               *)
(***************************************************************************)
\* The definitions of a list before a step are, at the same positions,
\* those of the list after it.
Kept(prms, prmsNext) ==
    /\ Len(prmsNext) >= Len(prms)
    /\ \A k \in 1..Len(prms) : prmsNext[k] = prms[k]

\* C19: once a registration call has returned success, no later operation
\* (successful or failed registration, metadata call,
\* ArgParser_requireFullPosParams, any step of ArgParser_parse) changes
\* the stored definition (option strings, name, description, kind,
\* destination, default value and string maximum length) or its position
\* in its list; and the buffer index never goes back, so no later copy
\* lands on the texts a stored definition points to.
C19_DefinitionsKept ==
    [][/\ Kept(optPrms, optPrms')
       /\ Kept(posPrms, posPrms')
       /\ bufIdx' >= bufIdx]_vars

\* An unsigned option -o of default 5 was registered, then
\* ArgParser_addVersion failed, ArgParser_requireFullPosParams was called
\* and "-o 7" was parsed: the definition is as it was registered.
C19_Witness ==
    /\ pc = "done" /\ result = "ok"
    /\ nCalls = 2
    /\ reqFullPosParams
    /\ version = NullStr
    /\ errorMsg = Msg0("Cannot add version string.")
    /\ argv = <<Tok_o, <<"7">>>>
    /\ numOptPrms = 3
    /\ optPrms[3] = [sOpt |-> Tok_o, lOpt |-> <<>>, name |-> ParamName,
                     desc |-> ParamDesc, varType |-> VarType_UInt,
                     dest |-> 3, defVal |-> DefNum(5)]

(***************************************************************************)
(* C20.  Every failure sets the error message.                             *)
(***************************************************************************)
\* C20: every call of a registration or metadata operation and of
\* ArgParser_parse that returns non-zero has set the error message during
\* that call: afterwards the message is not "OK.", it is one of the
\* messages of the operation that failed (so not what an earlier failure
\* of the other kind of operation left), and when the call is the one that
\* lost the version, the date or the author it is the message of
\* ArgParser_addVersion, ArgParser_addDate or ArgParser_addAuthor.
C20_FailureSetsMessage ==
    [][/\ CallFailed
          => /\ errorMsg' # MsgOK
             /\ errorMsg'.fmt \in CallErrors
       /\ ParseFailed
          => /\ errorMsg' # MsgOK
             /\ errorMsg'.fmt \in ParseErrors
       /\ (version # NullStr /\ version' = NullStr)
          => errorMsg' = Msg0("Cannot add version string.")
       /\ (date # NullStr /\ date' = NullStr)
          => errorMsg' = Msg0("Cannot add release date.")
       /\ (author # NullStr /\ author' = NullStr)
          => errorMsg' = Msg0("Cannot add author name.")]_vars

\* Two registration calls have failed (neither stored anything), and then
\* the parse of "abc" failed for want of a positional parameter: the
\* message is that of the parse and names "abc".
C20_Witness ==
    /\ pc = "done" /\ result = "fail"
    /\ nCalls = 2
    /\ bufIdx = APARSER_MAX_BUF - BufFree
    /\ numOptPrms = 2 /\ numPosPrms = 0
    /\ argv = << <<"a", "b", "c">> >>
    /\ errorMsg.fmt \in ParseErrors
    /\ errorMsg.arg = <<"a", "b", "c">>

(***************************************************************************)
(* C21.  The scan loop terminates and stays inside the argument list.      *)
(***************************************************************************)
\* The parse has ended at a positional token that found every positional
\* parameter filled: posPrms was not accessed.
Refused_TooMany ==
    /\ result = "fail"
    /\ errorMsg.fmt = "Too many positonal arguments: Near the arg '%s'. Needs %d positional args. But has more args."

\* What every step keeps: at the test of the loop 1 <= i <= argc; the call
\* sets i to 1; an iteration that does not end the parse advances i by one
\* or by two; the tokens read are argv[i] and, for a value, argv[i + 1],
\* both at an index below argc; and a step that takes a positional token
\* to posPrms[posIdx] finds posIdx below the positional count.
LoopStaysInside ==
    [][/\ pc = "scan" => (1 <= i /\ i <= argc)
       /\ (pc = "config" /\ pc' # "config") => i' = 1
       /\ pc = "defaults" => i' = i
       /\ (pc = "scan" /\ pc' = "scan") => (i' = i + 1 \/ i' = i + 2)
       /\ pc = "scan"
          => /\ Len(argv) = i - 1
             /\ Len(argv') \in {i - 1, i, i + 1}
             /\ Len(argv') < argc
       /\ 0 <= posIdx /\ posIdx <= numPosPrms
       /\ (/\ ReachesToken
           /\ kind'[Len(argv) + 1] = ArgType_NoOpt
           /\ ~Refused_TooMany')
          => posIdx < numPosPrms]_vars

\* C21: the scan loop of ArgParser_parse terminates, for every registry
\* and every argument list: a parse that has been called reaches its end;
\* the token index starts at 1, goes up by one or two in every iteration
\* that does not end the parse and is from 1 to argc at every test of the
\* loop; every token read, the value after an option included, is at an
\* index below argc, and the positional list is accessed below the
\* positional count only.
C21_LoopTerminates ==
    /\ LoopStaysInside
    /\ (pc \in {"defaults", "scan"}) ~> (pc = "done")

\* "-o 7" has been parsed against an unsigned option -o: the index went
\* from 1 to 3 = argc in one iteration and the loop has ended.
C21_Witness ==
    /\ pc = "done" /\ result = "ok"
    /\ argc = 3 /\ i = 3
    /\ argv = <<Tok_o, <<"7">>>>
    /\ kind = <<ArgType_Opt, Value>>
    /\ numOptPrms >= 3
    /\ optPrms[3].varType = VarType_UInt

(***************************************************************************)
(* C22.  The token after a value-taking option is not classified.          *)
(***************************************************************************)
\* A token the test of the loop classifies as an option.
OptionShaped(v) == determineArgType(v) = ArgType_Opt

\* C22: the token after a value-taking option is always consumed as the
\* value of that option and never classified.  Whatever its shape (-h, -v,
\* a registered or an unregistered option string, the malformed "--", a
\* number, a text), the step that reaches the option reads it in the same
\* iteration, does not end the parse for help or version, gives neither
\* the unknown-option nor the malformed-token error and assigns no
\* positional parameter: it writes what the conversion of the option's
\* kind makes of the token into the option's destination, and the only
\* error it can give is the invalid-value error of that conversion, naming
\* the token.
C22_ValueNotClassified ==
    [][\A k \in 1..numOptPrms :
          (/\ ReachesToken
           /\ Resolves(TokenReached, k)
           /\ optPrms[k].varType # VarType_True
           /\ i < argc - 1)
          => /\ Len(argv') = Len(argv) + 2
             /\ LET v == argv'[Len(argv) + 2]
                    w == writeArg(v, optPrms[k], mem[optPrms[k].dest])
                IN  /\ kind'[Len(argv) + 2] = Value
                    /\ result' # "exit"
                    /\ posIdx' = posIdx
                    /\ mem' = [mem EXCEPT ![optPrms[k].dest] = w.val]
                    /\ mem'[1] = mem[1] /\ mem'[2] = mem[2]
                    /\ IF w.status = 0
                       THEN /\ result' = "none" /\ pc' = "scan"
                            /\ errorMsg' = errorMsg
                       ELSE /\ result' = "fail" /\ pc' = "done"
                            /\ errorMsg' = Msg("Invalid value: arg %s, %s", v,
                                               optPrms[k].name, 0, 0)]_vars

\* "-o -h" against a string option -o: -h, the help option, was stored
\* (clipped) as the text of -o, the help flag is as the default pass left
\* it and the parse returned success.
C22_Witness ==
    /\ pc = "done" /\ result = "ok"
    /\ argc = 3 /\ i = 3
    /\ argv = <<Tok_o, Tok_h>>
    /\ kind = <<ArgType_Opt, Value>>
    /\ OptionShaped(argv[2]) /\ isHelpOption(argv[2])
    /\ numOptPrms >= 3
    /\ optPrms[3].varType = VarType_String
    /\ mem[optPrms[3].dest] = StrVal(ClipStr(Tok_h, MaxStrLen))
    /\ mem[1] = NumVal(0, 0)

(***************************************************************************)
(* C23.  String parameters of every maximum length.                        *)
(***************************************************************************)
\* C23: ArgParser_addString accepts every maximum length, 0 included,
\* without error (the call has stored the definition and left the error
\* message alone), and for every string parameter registered the writes of
\* parse, in the default pass and in the conversion of a value, the
\* terminator included, go to indices 0..maxLength - 1 of the destination:
\* no store goes outside the destination.
C23_WritesInside ==
    /\ nCalls = 1
       => /\ numOptPrms + numPosPrms = 3
          /\ TheParam.varType = VarType_String
          /\ errorMsg.fmt \notin CallErrors
    /\ ~oob

(***************************************************************************)
(* C24.  The texts of the parser after a call that failed.                 *)
(***************************************************************************)
\* C24: a call of ArgParser_addVersion, ArgParser_addDate or
\* ArgParser_addAuthor that returns failure (a call made while parse has
\* not been called, that leaves the buffer index as it was and sets one of
\* the three messages of these operations) leaves version, date and author
\* exactly as they were before the call; and in every reachable state
\* program name, description, version, date and author each refer to a
\* stored string, never to no string.
C24_TextsKept ==
    /\ [][(/\ CallFailed
           /\ errorMsg'.fmt \in { "Cannot add version string.",
                                  "Cannot add release date.",
                                  "Cannot add author name." })
          => UNCHANGED <<version, date, author>>]_vars
    /\ [](\A text \in {progName, progDesc, version, date, author} :
             text # NullStr)

(***************************************************************************)
(* C25.  A registration call that failed.                                  *)
(***************************************************************************)
\* The bytes a registration with the option strings o takes of the buffer,
\* the default text of a string parameter apart, and whether a number of
\* bytes fits the rest of the buffer.
BytesOf(o) ==
    (strlen(o.s) + 1) + (strlen(o.l) + 1)
    + (strlen(ParamName) + 1) + (strlen(ParamDesc) + 1)

Fits(bytes) == bufIdx + bytes <= APARSER_MAX_BUF

\* The call failed: but for the error message and the count of the calls
\* made, the state is the state before the call.
NeverAttempted ==
    /\ numOptPrms' = numOptPrms
    /\ numPosPrms' = numPosPrms
    /\ bufIdx' = bufIdx
    /\ UNCHANGED <<optPrms, posPrms, textVars, mem, oob, reqFullPosParams,
                   pc, scanVars>>

\* The call succeeded: the one count grew by one, the other did not.
OneGrew(num, numNext, other, otherNext, bytes) ==
    /\ numNext = num + 1
    /\ otherNext = other
    /\ bufIdx' = bufIdx + bytes

\* C25: a registration call that returns failure, the list at its capacity
\* or a string that does not fit the rest of the buffer at any of the copy
\* steps, leaves the optional count, the positional count and the buffer
\* index at their values before the call, and with them everything a
\* later lookup, default pass or parse reads; a registration that
\* succeeds makes exactly one of the two counts grow by one; and the
\* buffer index never exceeds the size of the buffer.
C25_FailedRegistration ==
    /\ [][/\ FillOptional
              => IF numOptPrms < APARSER_MAX_ARG_PRMS /\ Fits(BytesOf(Opt_o))
                 THEN OneGrew(numOptPrms, numOptPrms', numPosPrms,
                              numPosPrms', BytesOf(Opt_o))
                 ELSE NeverAttempted
          /\ FillPositional
              => IF numPosPrms < APARSER_MAX_ARG_PRMS /\ Fits(BytesOf(NoOpt))
                 THEN OneGrew(numPosPrms, numPosPrms', numOptPrms,
                              numOptPrms', BytesOf(NoOpt))
                 ELSE NeverAttempted
          /\ FillText
              => IF /\ numPosPrms < APARSER_MAX_ARG_PRMS
                    /\ Fits(BytesOf(NoOpt) + strlen(<<"d">>) + 1)
                 THEN OneGrew(numPosPrms, numPosPrms', numOptPrms,
                              numOptPrms', BytesOf(NoOpt) + strlen(<<"d">>) + 1)
                 ELSE NeverAttempted]_vars
    /\ [](bufIdx <= APARSER_MAX_BUF)

\* The optional list is full, one positional int32 parameter took its
\* bytes of the buffer, and of the 33 calls made the last failed at a
\* copy: the buffer index is where the positional registration left it.
C25_Witness ==
    /\ pc = "config"
    /\ nCalls = 33
    /\ numOptPrms = APARSER_MAX_ARG_PRMS
    /\ numPosPrms = 1
    /\ posPrms[1].varType = VarType_Int32
    /\ bufIdx = APARSER_MAX_BUF - (BufFree - BytesOf(NoOpt))
    /\ ~Fits(BytesOf(NoOpt))
    /\ errorMsg.fmt = "Cannot store the string '%s'."

=============================================================================
